---- MODULE Spec2Model ----
(***************************************************************************)
(* Model of src/src/App.tsx: the App component (recommendation fetch on    *)
(* mount, tri-state view) and the useDarkMode hook (theme resolution,      *)
(* root marker, persisted 'theme' key).                                    *)
(*                                                                         *)
(* JavaScript values are tagged records [t, a]: t is the type tag and a    *)
(* the element sequence of an array (<<>> for every other type).           *)
(***************************************************************************)
EXTENDS Integers, Sequences, FiniteSets, TLC

-----------------------------------------------------------------------------
(* Bounds *)

MaxItems == 2
MaxIds == 2
MaxToggles == 3

-----------------------------------------------------------------------------
(* Values *)

\* localStorage.getItem returns null when the key is absent
NullValue == "<null>"

\* values the 'theme' key can hold when the page loads
StoredValues == {NullValue, "dark", "light", "blue", ""}

\* window.matchMedia: undefined, or a query result for prefers-color-scheme: dark
MatchMediaValues == {"unavailable", "dark", "light"}

\* useState<string | null>(null)
NoError == "<null>"

GenericMessage == "Unable to load recommendations right now"

SkeletonCount == 6

\* reasons for which axios.get rejects
FailureKinds == {"network", "timeout", "status", "parse"}

\* one element of an items array: an Item record (with or without a numeric
\* finalPrice) or null
ItemValues ==
  [k : {"item"}, id : 1..MaxIds, priced : BOOLEAN]
    \cup {[k |-> "null", id |-> 0, priced |-> FALSE]}

JS(tag) == [t |-> tag, a |-> <<>>]

JSArray(s) == [t |-> "array", a |-> s]

EmptyArray == JSArray(<<>>)

SeqsUpTo(S, n) == UNION {[1..m -> S] : m \in 0..n}

\* what response.data.items can be
ItemsValues ==
  {JS(tag) : tag \in {"undefined", "null", "emptystring", "zero", "false",
                      "string", "number", "object"}}
    \cup {JSArray(s) : s \in SeqsUpTo(ItemValues, MaxItems)}

\* res.data: JSON null, an unparsed text body, or an object
Bodies ==
  {[t |-> "null", items |-> JS("undefined")],
   [t |-> "string", items |-> JS("undefined")]}
    \cup {[t |-> "object", items |-> v] : v \in ItemsValues}

NoBody == [t |-> "none", items |-> JS("undefined")]

Pending == [st |-> "pending", kind |-> "none", data |-> NoBody]

Fulfilled(data) == [st |-> "fulfilled", kind |-> "none", data |-> data]

Rejected(kind) == [st |-> "rejected", kind |-> kind, data |-> NoBody]

-----------------------------------------------------------------------------
(* JavaScript semantics used by the component *)

Truthy(v) == v.t \notin {"undefined", "null", "emptystring", "zero", "false"}

\* res.data.items throws a TypeError when res.data is null
ItemsAccessThrows(data) == data.t = "null"

\* res.data.items: undefined on a string body, the field on an object
GetItems(data) == IF data.t = "object" THEN data.items ELSE JS("undefined")

\* res.data.items || []
ItemsOrEmpty(data) ==
  IF Truthy(GetItems(data)) THEN GetItems(data) ELSE EmptyArray

\* p.id on null throws; PriceTag calls price.toFixed(2) on p.finalPrice
CardThrows(p) == p.k = "null" \/ ~p.priced

\* {!loading && items.map(p => <article key={p.id}> ... )}
RenderThrows(ld, its) ==
  /\ ~ld
  /\ \/ its.t # "array"
     \/ \E i \in 1..Len(its.a) : CardThrows(its.a[i])

ThemeName(dark) == IF dark THEN "dark" ELSE "light"

\* the useState initializer of useDarkMode
resolveInitial(hasWindow, saved, mm) ==
  IF ~hasWindow THEN FALSE
  ELSE IF saved # NullValue /\ saved # "" THEN saved = "dark"
  ELSE mm = "dark"

-----------------------------------------------------------------------------
(* State *)

VARIABLES
  pc,                 \* "start", "rendered" (first commit, effects pending),
                      \* "active" (mount effects flushed), "unmounted"
  crashed,            \* "none", or what threw: "storageRead", "storageWrite", "render"
  items, loading, error, isDark,      \* hook state of App / useDarkMode
  themeEffectPending, \* a commit changed isDark and its effect has not run
  rootDark,           \* document.documentElement carries the class 'dark'
  storage,            \* localStorage 'theme'
  readFails, writeFails,  \* localStorage.getItem / setItem throw
  matchMedia,         \* the OS colour-scheme preference
  fetch,              \* "idle", "inflight", "settled"
  requests,           \* number of axios.get calls
  unhandled,          \* a rejection left the async function
  response,           \* history: how the request settled
  mountedAtSettle,    \* history: the instance was mounted when it settled
  saved0, isDark0,    \* history: stored value at load, resolved initial theme
  toggles, togglesAtSettle  \* history: clicks on the toggle

vars ==
  <<pc, crashed, items, loading, error, isDark, themeEffectPending, rootDark,
    storage, readFails, writeFails, matchMedia, fetch, requests, unhandled,
    response, mountedAtSettle, saved0, isDark0, toggles, togglesAtSettle>>

envVars == <<readFails, writeFails, matchMedia, saved0>>

viewVars == <<items, loading, error>>

themeVars == <<isDark, themeEffectPending, rootDark, storage>>

fetchVars == <<fetch, requests, unhandled, response, mountedAtSettle, togglesAtSettle>>

Mounted == pc \in {"rendered", "active"}

-----------------------------------------------------------------------------
(* Renderer *)

Skeletons == IF loading THEN SkeletonCount ELSE 0

Cards == IF ~loading /\ items.t = "array" THEN Len(items.a) ELSE 0

Banner == error # NoError

\* Total items: {items.length}
TotalItems == IF items.t = "array" THEN Len(items.a) ELSE -1

ToggleLabel == IF isDark THEN "Light" ELSE "Dark"

-----------------------------------------------------------------------------
(* Operations *)

Init ==
  /\ pc = "start"
  /\ crashed = "none"
  /\ items = EmptyArray
  /\ loading = FALSE
  /\ error = NoError
  /\ isDark = FALSE
  /\ themeEffectPending = FALSE
  /\ rootDark = FALSE
  /\ storage \in StoredValues
  /\ readFails \in BOOLEAN
  /\ writeFails \in BOOLEAN
  /\ matchMedia \in MatchMediaValues
  /\ fetch = "idle"
  /\ requests = 0
  /\ unhandled = FALSE
  /\ response = Pending
  /\ mountedAtSettle = FALSE
  /\ saved0 = storage
  /\ isDark0 = FALSE
  /\ toggles = 0
  /\ togglesAtSettle = 0

\* first render of App: the state initializers run and the tree is committed
Mount ==
  /\ pc = "start"
  /\ IF readFails
       THEN /\ pc' = "unmounted"
            /\ crashed' = "storageRead"
            /\ UNCHANGED <<isDark, isDark0>>
       ELSE /\ pc' = "rendered"
            /\ isDark' = resolveInitial(TRUE, storage, matchMedia)
            /\ isDark0' = isDark'
            /\ UNCHANGED crashed
  /\ UNCHANGED <<viewVars, themeEffectPending, rootDark, storage, envVars,
                 fetchVars, toggles>>

\* the effect of useDarkMode: marker first, then the write
ApplyTheme ==
  /\ rootDark' = isDark
  /\ IF writeFails
       THEN /\ UNCHANGED storage
            /\ crashed' = "storageWrite"
            /\ pc' = "unmounted"
       ELSE /\ storage' = ThemeName(isDark)
            /\ UNCHANGED crashed
            /\ pc' = "active"

\* the mount effect of App up to its await
StartFetch ==
  /\ loading' = TRUE
  /\ error' = NoError
  /\ fetch' = "inflight"
  /\ requests' = requests + 1

\* the passive effects of the first commit, flushed together
MountEffects ==
  /\ pc = "rendered"
  /\ ApplyTheme
  /\ IF writeFails
       THEN \* whether the effects after a throwing one still run depends on
            \* the React build
            \/ /\ fetch' = "inflight"
               /\ requests' = requests + 1
               /\ UNCHANGED <<loading, error>>
            \/ UNCHANGED <<loading, error, fetch, requests>>
       ELSE StartFetch
  /\ UNCHANGED <<items, isDark, themeEffectPending, envVars, unhandled,
                 response, mountedAtSettle, isDark0, toggles, togglesAtSettle>>

\* state setters called on an instance that is no longer mounted do nothing
SettleOn(its, err, ld) ==
  IF pc = "active"
    THEN /\ items' = its
         /\ error' = err
         /\ loading' = ld
         /\ IF RenderThrows(ld, its)
              THEN crashed' = "render" /\ pc' = "unmounted"
              ELSE UNCHANGED <<crashed, pc>>
    ELSE UNCHANGED <<items, error, loading, crashed, pc>>

SettleHistory(r) ==
  /\ fetch' = "settled"
  /\ response' = r
  /\ mountedAtSettle' = (pc = "active")
  /\ togglesAtSettle' = toggles

\* axios.get resolves: try body, then finally
FetchFulfilled(data) ==
  /\ fetch = "inflight"
  /\ IF ItemsAccessThrows(data)
       THEN SettleOn(items, GenericMessage, FALSE)
       ELSE SettleOn(ItemsOrEmpty(data), error, FALSE)
  /\ SettleHistory(Fulfilled(data))
  /\ UNCHANGED <<themeVars, envVars, requests, unhandled, isDark0, toggles>>

\* the catch stores the transport's reason instead of the fixed message
FetchRejectedLeaksDetail(kind) ==
  /\ fetch = "inflight"
  /\ SettleOn(items, kind, FALSE)
  /\ SettleHistory(Rejected(kind))
  /\ UNCHANGED <<themeVars, envVars, requests, unhandled, isDark0, toggles>>

\* setLoading(false) sits at the end of the try block instead of in finally
FetchRejectedKeepsLoading(kind) ==
  /\ fetch = "inflight"
  /\ SettleOn(items, GenericMessage, loading)
  /\ SettleHistory(Rejected(kind))
  /\ UNCHANGED <<themeVars, envVars, requests, unhandled, isDark0, toggles>>

\* try/finally without a catch: the rejection leaves the async function
FetchRejectedUncaught(kind) ==
  /\ fetch = "inflight"
  /\ SettleOn(items, error, FALSE)
  /\ SettleHistory(Rejected(kind))
  /\ unhandled' = TRUE
  /\ UNCHANGED <<themeVars, envVars, requests, isDark0, toggles>>

\* axios.get rejects: catch, then finally
FetchRejected(kind) ==
  /\ fetch = "inflight"
  /\ SettleOn(items, GenericMessage, FALSE)
  /\ SettleHistory(Rejected(kind))
  /\ UNCHANGED <<themeVars, envVars, requests, unhandled, isDark0, toggles>>

\* the fetch effect lists isDark as a dependency and runs again on a toggle
ToggleRefetch ==
  /\ pc = "active"
  /\ ~themeEffectPending
  /\ toggles < MaxToggles
  /\ isDark' = ~isDark
  /\ themeEffectPending' = TRUE
  /\ toggles' = toggles + 1
  /\ loading' = TRUE
  /\ error' = NoError
  /\ fetch' = "inflight"
  /\ requests' = requests + 1
  /\ UNCHANGED <<pc, crashed, items, rootDark, storage, envVars, unhandled,
                 response, mountedAtSettle, togglesAtSettle, isDark0>>

\* the button carries disabled={loading}
ToggleDisabledWhileLoading ==
  /\ pc = "active"
  /\ ~loading
  /\ ~themeEffectPending
  /\ toggles < MaxToggles
  /\ isDark' = ~isDark
  /\ themeEffectPending' = TRUE
  /\ toggles' = toggles + 1
  /\ UNCHANGED <<pc, crashed, viewVars, rootDark, storage, envVars, fetchVars,
                 isDark0>>

\* onClick={() => setIsDark(!isDark)} and the re-render it causes
Toggle ==
  /\ pc = "active"
  /\ ~themeEffectPending
  /\ toggles < MaxToggles
  /\ isDark' = ~isDark
  /\ themeEffectPending' = TRUE
  /\ toggles' = toggles + 1
  /\ UNCHANGED <<pc, crashed, viewVars, rootDark, storage, envVars, fetchVars,
                 isDark0>>

\* the effect of useDarkMode after a commit that changed isDark
ThemeEffect ==
  /\ pc = "active"
  /\ themeEffectPending
  /\ themeEffectPending' = FALSE
  /\ ApplyTheme
  /\ UNCHANGED <<viewVars, isDark, envVars, fetchVars, isDark0, toggles>>

\* the host removes the component
Unmount ==
  /\ pc = "active"
  /\ ~themeEffectPending
  /\ pc' = "unmounted"
  /\ UNCHANGED <<crashed, viewVars, themeVars, envVars, fetchVars, isDark0,
                 toggles>>

Next ==
  \/ Mount
  \/ MountEffects
  \/ \E data \in Bodies : FetchFulfilled(data)
  \/ \E kind \in FailureKinds : FetchRejected(kind)
  \/ Toggle
  \/ ThemeEffect
  \/ Unmount

Spec == Init /\ [][Next]_vars

-----------------------------------------------------------------------------
(* Properties *)

ViewLoading == loading /\ Skeletons = SkeletonCount /\ Cards = 0 /\ ~Banner

\* C1: from the first rendered state until the fetch settles the view is
\* Loading: loading flag set, six skeleton cards, no item cards, no banner.
LoadingIsInitial == (Mounted /\ fetch # "settled") => ViewLoading

\* C2: at most one request is ever issued, exactly one once the mount effect
\* has run, and once the fetch has settled no step issues a request or
\* changes loading, error or items.
ReadyErrorTerminal ==
  /\ [](requests <= 1 /\ (fetch # "idle" => requests = 1))
  /\ [][fetch = "settled" => UNCHANGED <<loading, error, items, requests, fetch>>]_vars

\* a toggle was clicked after the fetch had settled on the mounted instance
ToggledAfterSettle ==
  /\ fetch = "settled"
  /\ mountedAtSettle
  /\ crashed = "none"
  /\ toggles > togglesAtSettle
  /\ ~themeEffectPending

MalformedBody(data) ==
  \/ data.t # "object"
  \/ data.items.t # "array"
  \/ \E i \in 1..Len(data.items.a) : CardThrows(data.items.a[i])

\* C4: a fulfilled request whose body lacks a well-formed items array leaves
\* the mounted instance Ready with no items: no banner, no skeletons, no
\* crash, summary 0.
LenientOnMalformedBody ==
  (response.st = "fulfilled" /\ mountedAtSettle /\ MalformedBody(response.data))
    => /\ crashed = "none"
       /\ ~Banner
       /\ Skeletons = 0
       /\ items = EmptyArray
       /\ TotalItems = 0

\* C5: whenever the component is rendered, isDark, the root marker and the
\* stored value agree.
ThemeNeverDiverges ==
  Mounted => /\ isDark <=> rootDark
             /\ isDark <=> storage = "dark"
             /\ ~isDark <=> storage = "light"

\* C6: a failing storage read or write never brings the component down: the
\* theme is resolved from the OS preference, and the marker follows isDark.
StorageFailuresAbsorbed ==
  /\ crashed \notin {"storageRead", "storageWrite"}
  /\ (readFails /\ pc # "start") => (isDark0 <=> matchMedia = "dark")
  /\ (writeFails /\ pc = "active" /\ ~themeEffectPending) => (rootDark <=> isDark)

\* the initializer of useDarkMode has returned
Resolved == pc # "start" /\ crashed # "storageRead"

\* C7: a stored value decides the initial theme whenever one is present
\* ('dark' gives dark, anything else light), otherwise the OS preference
\* does, otherwise light; with nothing stored and an OS preference of dark
\* the marker is set and 'dark' is stored before any click.
PersistedValueDecides ==
  /\ (Resolved /\ saved0 # NullValue) => (isDark0 <=> saved0 = "dark")
  /\ (Resolved /\ saved0 = NullValue) => (isDark0 <=> matchMedia = "dark")
  /\ (Resolved /\ pc # "rendered" /\ saved0 = NullValue /\ matchMedia = "dark"
        /\ toggles = 0)
       => (rootDark /\ storage = "dark")

\* C8: whenever error is set, loading is false, there are no skeleton or item
\* cards, items is empty and the summary reads 0.
BannerImpliesEmptyGrid ==
  Banner => /\ ~loading
            /\ Skeletons = 0
            /\ Cards = 0
            /\ items = EmptyArray
            /\ TotalItems = 0

\* the banner is up on the mounted instance after the theme was toggled
BannerShown == Banner /\ pc = "active" /\ toggles > 0

ExpectedError(r) ==
  IF r.st = "rejected" \/ ItemsAccessThrows(r.data) THEN GenericMessage ELSE NoError

ExpectedItems(r) ==
  IF r.st = "fulfilled" /\ ~ItemsAccessThrows(r.data)
    THEN ItemsOrEmpty(r.data)
    ELSE EmptyArray

Flipped(dark, n) == IF n % 2 = 1 THEN ~dark ELSE dark

\* C9: the toggle is enabled in every view state of the mounted component;
\* a theme step leaves loading, error and items alone; the fetch settling
\* leaves isDark, the marker and the stored value alone; and however toggles
\* and the settling interleave, the view is the one the response determines
\* and the theme the one the number of toggles determines.
ThemeFetchIndependent ==
  /\ []((pc = "active" /\ ~themeEffectPending /\ toggles < MaxToggles)
          => ENABLED Toggle)
  /\ [][(pc = "active" /\ <<isDark, rootDark, storage>>' # <<isDark, rootDark, storage>>)
          => UNCHANGED <<loading, error, items, fetch, requests>>]_vars
  /\ [][(fetch = "inflight" /\ fetch' = "settled")
          => UNCHANGED <<isDark, rootDark, storage, themeEffectPending>>]_vars
  /\ []((fetch = "settled" /\ mountedAtSettle)
          => /\ error = ExpectedError(response)
             /\ items = ExpectedItems(response)
             /\ ~loading)
  /\ []((pc = "active" /\ ~themeEffectPending)
          => /\ isDark = Flipped(isDark0, toggles)
             /\ rootDark = isDark
             /\ storage = ThemeName(isDark))

\* toggles were clicked both while Loading and after the fetch settled
ToggledAroundSettle ==
  /\ fetch = "settled"
  /\ mountedAtSettle
  /\ pc = "active"
  /\ togglesAtSettle > 0
  /\ toggles > togglesAtSettle
  /\ ~themeEffectPending
  /\ response.st = "fulfilled"
  /\ Cards > 0

\* C10: when the instance is unmounted while the request is in flight, the
\* arrival of the result changes nothing and raises nothing.
StaleResultNoOp ==
  [][(pc = "unmounted" /\ fetch = "inflight" /\ fetch' = "settled")
       => UNCHANGED <<items, error, loading, isDark, themeEffectPending,
                      rootDark, storage, crashed, unhandled, pc, requests>>]_vars

\* the host unmounted the component, then the rejection arrived
StaleRejectionArrived ==
  /\ fetch = "settled"
  /\ ~mountedAtSettle
  /\ crashed = "none"
  /\ pc = "unmounted"
  /\ response.st = "rejected"
  /\ loading

====
